---- MODULE Spec2Model ----
(***************************************************************************)
(* delta-struct-macros: the #[derive(Delta)] procedural macro              *)
(* (src/delta-struct-macros/src/lib.rs) and the code it generates.         *)
(*                                                                         *)
(*  - derive time: derive_delta reads a declaration, resolves the strategy *)
(*    (FieldType) of every field, and emits the Delta struct and the       *)
(*    Delta impl, or aborts;                                               *)
(*  - run time: the generated fn delta(old, new) -> Option<Output> and     *)
(*    fn apply_delta(&mut self, delta).                                    *)
(*                                                                         *)
(* Option<T> is a sequence of length 0 (None) or 1 (Some(v)).  A Vec is a  *)
(* sequence.  A struct value is the sequence of its field values in        *)
(* declaration order.  Element and scalar values are integers, compared    *)
(* with ==.                                                                *)
(***************************************************************************)
EXTENDS Integers, Sequences, FiniteSets, TLC

VARIABLES
    pc,        \* position of the run
    input,     \* derive time: the DeriveInput being processed
    default_field_type, \* derive time: lib.rs:33
    delta_leader,       \* derive time: lib.rs:33
    fields,    \* derive time: lib.rs:44/82, Result<Vec<(name, FieldType, leader)>, Vec<String>>
    output,    \* derive time: what derive_delta has produced so far
    ty,        \* run time: the struct type (its classified fields)
    old,       \* run time: argument `old` of delta; the target before apply_delta
    new,       \* run time: argument `new` of delta
    delta,     \* run time: Option<Self::Output>
    self       \* run time: the receiver of apply_delta

vars == <<pc, input, default_field_type, delta_leader, fields, output,
          ty, old, new, delta, self>>

derive_vars == <<input, default_field_type, delta_leader, fields, output>>
run_vars == <<ty, old, new, delta, self>>

----------------------------------------------------------------------------
(* Bounds *)

\* largest number of integers (scalars and collection elements) in a record
MaxSize == 3
\* element and scalar values are 1..NumVals
NumVals == 3

\* largest number of integers in a target and a hand-built Delta together
PatchSize == 4

Vals == 1..NumVals

\* the value of a variable the run does not use
Idle == "idle"

----------------------------------------------------------------------------
(* Option and Vec *)

None == <<>>
Some(v) == <<v>>
is_some(o) == Len(o) = 1
unwrap_or(o, d) == IF is_some(o) THEN o[1] ELSE d

\* Iterator::position: index of the first element equal to x, 0 for None
position(s, x) ==
    IF \E i \in 1..Len(s) : s[i] = x
    THEN CHOOSE i \in 1..Len(s) : s[i] = x /\ \A j \in 1..(i - 1) : s[j] # x
    ELSE 0

\* Vec::remove(index), index 1-based
remove(s, index) == SubSeq(s, 1, index - 1) \o SubSeq(s, index + 1, Len(s))

----------------------------------------------------------------------------
(* enum FieldType, lib.rs:14-20 *)

FieldType == {"Ordered", "Unordered", "Scalar", "Delta"}

\* a classified field of a struct type: its strategy and, for a Delta field,
\* the struct type of the field
Scalar == [ft |-> "Scalar", inner |-> <<>>]
Unordered == [ft |-> "Unordered", inner |-> <<>>]
DeltaOf(t) == [ft |-> "Delta", inner |-> t]

----------------------------------------------------------------------------
(* Generated fn delta, lib.rs:140-150 with the lets of lib.rs:220-265 *)

\* compute_filter_map without `#add.remove(index)`: a match is not consumed
RECURSIVE compute_filter_map_unconsumed(_, _, _)
compute_filter_map_unconsumed(items, add, kept) ==
    IF Len(items) = 0 THEN [add |-> add, remove |-> kept]
    ELSE LET i == Head(items)
             index == position(add, i)
         IN IF index # 0
            THEN compute_filter_map_unconsumed(Tail(items), add, kept)
            ELSE compute_filter_map_unconsumed(Tail(items), add, Append(kept, i))

\* lib.rs:227-234: old.into_iter().filter_map(..) against the mutable `add`
RECURSIVE compute_filter_map(_, _, _)
compute_filter_map(items, add, kept) ==
    IF Len(items) = 0 THEN [add |-> add, remove |-> kept]
    ELSE LET i == Head(items)
             index == position(add, i)
         IN IF index # 0
            THEN compute_filter_map(Tail(items), remove(add, index), kept)
            ELSE compute_filter_map(Tail(items), add, Append(kept, i))

\* unordered_compute with old and new exchanged
unordered_compute_swapped(o, n) == compute_filter_map(n, o, <<>>)

\* lib.rs:226-234: the (add, remove) pair of an Unordered field
unordered_compute(o, n) == compute_filter_map(o, n, <<>>)

\* unordered_is_some that looks at `add` alone
unordered_is_some_add_only(r) == Len(r.add) # 0

\* lib.rs:235
unordered_is_some(r) == Len(r.add) # 0 \/ Len(r.remove) # 0

\* scalar_compute that records the old value
scalar_compute_old(o, n) == IF o # n THEN Some(o) ELSE None

\* lib.rs:245-250
scalar_compute(o, n) == IF o # n THEN Some(n) ELSE None

RECURSIVE delta_fn(_, _, _)

\* one `let` of #delta_compute_let: the field's sub-value and whether it
\* marks the record as changed
compute_let(f, o, n) ==
    CASE f.ft = "Unordered" ->
            LET r == unordered_compute(o, n)
            IN [value |-> r, changed |-> unordered_is_some(r)]
      [] f.ft = "Scalar" ->
            LET v == scalar_compute(o, n)
            IN [value |-> v, changed |-> is_some(v)]
      [] f.ft = "Delta" ->
            LET d == delta_fn(f.inner, o, n)
            IN [value |-> d, changed |-> is_some(d)]

\* lib.rs:141 and the updates of delta_is_some in field order
RECURSIVE delta_is_some(_, _)
delta_is_some(lets, k) ==
    IF k = 0 THEN FALSE ELSE delta_is_some(lets, k - 1) \/ lets[k].changed

\* fn delta(old: Self, new: Self) -> Option<Self::Output>
delta_fn(t, o, n) ==
    LET lets == [i \in 1..Len(t) |-> compute_let(t[i], o[i], n[i])]
    IN IF delta_is_some(lets, Len(t))
       THEN Some([i \in 1..Len(t) |-> lets[i].value])
       ELSE None

----------------------------------------------------------------------------
(* Generated fn apply_delta, lib.rs:152-157 with the actions of 284-331 *)

\* apply_filter_map without `#remove.remove(index)`: one entry of `remove`
\* cancels every equal element
RECURSIVE apply_filter_map_unconsumed(_, _, _)
apply_filter_map_unconsumed(og, rem, kept) ==
    IF Len(og) = 0 THEN kept
    ELSE LET i == Head(og)
             index == position(rem, i)
         IN IF index # 0
            THEN apply_filter_map_unconsumed(Tail(og), rem, kept)
            ELSE apply_filter_map_unconsumed(Tail(og), rem, Append(kept, i))

\* lib.rs:295-302: og.into_iter().filter_map(..) against the mutable `remove`
RECURSIVE apply_filter_map(_, _, _)
apply_filter_map(og, rem, kept) ==
    IF Len(og) = 0 THEN kept
    ELSE LET i == Head(og)
             index == position(rem, i)
         IN IF index # 0
            THEN apply_filter_map(Tail(og), remove(rem, index), kept)
            ELSE apply_filter_map(Tail(og), rem, Append(kept, i))

\* unordered_apply without `#ident.extend(#add.into_iter())`
unordered_apply_no_extend(og, d) == apply_filter_map(og, d.remove, <<>>)

\* lib.rs:293-305
unordered_apply(og, d) == apply_filter_map(og, d.remove, <<>>) \o d.add

\* scalar_apply that stores a default when the replacement is None
scalar_apply_or_default(cur, d) == IF is_some(d) THEN d[1] ELSE 0

\* lib.rs:315-317
scalar_apply(cur, d) == IF is_some(d) THEN d[1] ELSE cur

RECURSIVE apply_delta(_, _, _)

\* one action of #delta_apply_actions
apply_action(f, cur, d) ==
    CASE f.ft = "Unordered" -> unordered_apply(cur, d)
      [] f.ft = "Scalar" -> scalar_apply(cur, d)
      [] f.ft = "Delta" ->
            IF is_some(d) THEN apply_delta(f.inner, cur, d[1]) ELSE cur

\* fn apply_delta(&mut self, delta: Self::Output): the value of self afterwards
apply_delta(t, s, d) == [i \in 1..Len(t) |-> apply_action(t[i], s[i], d[i])]

----------------------------------------------------------------------------
(* Values of a struct type *)

\* all sequences over S of length exactly n / at most n
RECURSIVE SeqsOfLen(_, _)
SeqsOfLen(S, n) ==
    IF n = 0 THEN {<<>>}
    ELSE {Append(s, x) : s \in SeqsOfLen(S, n - 1), x \in S}
SeqsUpTo(S, n) == UNION {SeqsOfLen(S, k) : k \in 0..n}

RECURSIVE Records(_, _)
RECURSIVE Size(_, _)

\* number of integers in a field value / a record
FieldSize(f, v) ==
    CASE f.ft = "Scalar" -> 1
      [] f.ft = "Unordered" -> Len(v)
      [] f.ft = "Delta" -> Size(f.inner, v)
Size(t, r) == IF Len(t) = 0 THEN 0
              ELSE FieldSize(Head(t), Head(r)) + Size(Tail(t), Tail(r))

\* the values of a field holding at most n integers
FieldValues(f, n) ==
    CASE f.ft = "Scalar" -> IF n >= 1 THEN Vals ELSE {}
      [] f.ft = "Unordered" -> SeqsUpTo(Vals, n)
      [] f.ft = "Delta" -> Records(f.inner, n)

\* the records of type t holding at most n integers
Records(t, n) ==
    IF Len(t) = 0 THEN {<<>>}
    ELSE UNION { { <<h>> \o r : r \in Records(Tail(t), n - FieldSize(Head(t), h)) }
                 : h \in FieldValues(Head(t), n) }

\* the struct types under study: every strategy alone, in pairs, nested
RecordTypes ==
    { <<>>,
      <<Scalar>>,
      <<Unordered>>,
      <<Scalar, Unordered>>,
      <<DeltaOf(<<Unordered>>)>>,
      <<Scalar, DeltaOf(<<Unordered>>)>>,
      <<Unordered, DeltaOf(<<Scalar>>)>>,
      <<Scalar, Unordered, DeltaOf(<<Scalar>>)>> }

----------------------------------------------------------------------------
(* Run time: delta then apply_delta on a copy of old *)

Init ==
    /\ pc = "start"
    /\ ty \in RecordTypes
    /\ old \in Records(ty, MaxSize)
    /\ new \in Records(ty, MaxSize)
    /\ self = old
    /\ delta = None
    /\ input = Idle /\ default_field_type = Idle /\ delta_leader = Idle
    /\ fields = Idle /\ output = Idle

\* let d = Delta::delta(old, new)
Delta ==
    /\ pc = "start"
    /\ delta' = delta_fn(ty, old, new)
    /\ pc' = "computed"
    /\ UNCHANGED <<ty, old, new, self>>
    /\ UNCHANGED derive_vars

\* if let Some(d) = d { self.apply_delta(d) }
ApplyDelta ==
    /\ pc = "computed"
    /\ is_some(delta)
    /\ self' = apply_delta(ty, self, delta[1])
    /\ pc' = "applied"
    /\ UNCHANGED <<ty, old, new, delta>>
    /\ UNCHANGED derive_vars

Next == Delta \/ ApplyDelta

Spec == Init /\ [][Next]_vars

----------------------------------------------------------------------------
(* Run time: apply_delta with a Delta value built by hand (the fields of   *)
(* the Delta struct are pub, lib.rs:186-200) on any target                 *)

RECURSIVE Deltas(_, _)
RECURSIVE DeltaSize(_, _)

\* number of integers in a field's sub-value / a Delta value
SubValueSize(f, d) ==
    CASE f.ft = "Scalar" -> Len(d)
      [] f.ft = "Unordered" -> Len(d.add) + Len(d.remove)
      [] f.ft = "Delta" -> IF is_some(d) THEN DeltaSize(f.inner, d[1]) ELSE 0
DeltaSize(t, d) == IF Len(t) = 0 THEN 0
                   ELSE SubValueSize(Head(t), Head(d)) + DeltaSize(Tail(t), Tail(d))

\* the sub-values of a field's Delta shape (lib.rs:181-202), at most n integers
SubValues(f, n) ==
    CASE f.ft = "Scalar" -> {None} \cup (IF n >= 1 THEN {Some(v) : v \in Vals} ELSE {})
      [] f.ft = "Unordered" ->
            UNION { { [add |-> a, remove |-> r] : r \in SeqsUpTo(Vals, n - Len(a)) }
                    : a \in SeqsUpTo(Vals, n) }
      [] f.ft = "Delta" -> {None} \cup {Some(d) : d \in Deltas(f.inner, n)}

\* the Delta values of type t holding at most n integers
Deltas(t, n) ==
    IF Len(t) = 0 THEN {<<>>}
    ELSE UNION { { <<h>> \o d : d \in Deltas(Tail(t), n - SubValueSize(Head(t), h)) }
                 : h \in SubValues(Head(t), n) }

InitPatch ==
    /\ pc = "computed"
    /\ ty \in RecordTypes
    /\ old \in Records(ty, PatchSize)
    /\ new = old
    /\ self = old
    /\ delta \in {Some(d) : d \in Deltas(ty, PatchSize - Size(ty, old))}
    /\ input = Idle /\ default_field_type = Idle /\ delta_leader = Idle
    /\ fields = Idle /\ output = Idle

SpecPatch == InitPatch /\ [][ApplyDelta]_vars

----------------------------------------------------------------------------
(* Derive time: the declaration read by derive_delta                       *)
(*                                                                         *)
(* A string literal is the sequence of its lexemes.  An attribute is       *)
(* [path, nested]; a NestedMeta is a name = "literal" pair or anything     *)
(* else (a bare path, a non-string literal), which lib.rs:377 rejects.     *)

NameValue(name, value) == [kind |-> "NameValue", name |-> name, value |-> value]
Junk == [kind |-> "Other", name |-> "", value |-> <<>>]
delta_struct(nested) == [path |-> "delta_struct", nested |-> nested]
OtherAttr == [path |-> "serde", nested |-> <<>>]

\* leader texts: a derive list, and one with its delimiters left open
GoodLeader == <<"#", "[", "derive", "(", "Debug", ")", "]">>
BadLeader == <<"#", "[", "derive", "(">>

\* fn string_to_fieldtype, lib.rs:418-426
string_to_fieldtype(s) ==
    CASE s = <<"ordered">> -> Some("Ordered")
      [] s = <<"unordered">> -> Some("Unordered")
      [] s = <<"scalar">> -> Some("Scalar")
      [] s = <<"delta">> -> Some("Delta")
      [] OTHER -> None

\* lib.rs:369-390: Ok(the name-value pairs) or Err(the other metas)
values(nested) ==
    LET bad == SelectSeq(nested, LAMBDA m : m.kind # "NameValue")
    IN IF Len(bad) = 0
       THEN [tag |-> "Ok", v |-> nested]
       ELSE [tag |-> "Err", v |-> bad]

\* lib.rs:393-408: the loop over the name-value pairs
RECURSIVE scan_values(_, _, _, _)
scan_values(v, attr_name, field_type, leader) ==
    IF Len(v) = 0
    THEN [tag |-> "Ok", field_type |-> field_type, leader |-> leader]
    ELSE LET i == Head(v)
         IN CASE i.name = "delta_leader" ->
                    scan_values(Tail(v), attr_name, field_type, i.value)
              [] i.name # "delta_leader" /\ i.name = attr_name ->
                    scan_values(Tail(v), attr_name,
                                string_to_fieldtype(i.value), leader)
              [] OTHER ->
                    [tag |-> "Abort", field_type |-> None, leader |-> <<>>]

\* fn get_fieldtype_from_attrs, lib.rs:357-416: the first delta_struct(..)
\* attribute decides
RECURSIVE get_fieldtype_from_attrs(_, _)
get_fieldtype_from_attrs(attrs, attr_name) ==
    IF Len(attrs) = 0
    THEN [tag |-> "Ok", field_type |-> None, leader |-> <<>>]
    ELSE IF Head(attrs).path = "delta_struct"
         THEN LET vs == values(Head(attrs).nested)
              IN IF vs.tag = "Ok"
                 THEN scan_values(vs.v, attr_name, None, <<>>)
                 ELSE [tag |-> "Err", field_type |-> None, leader |-> <<>>]
         ELSE get_fieldtype_from_attrs(Tail(attrs), attr_name)

\* usize::to_string for the positions of a tuple struct
to_string(i) == <<"0", "1", "2", "3", "4", "5", "6", "7", "8", "9">>[i + 1]

\* lib.rs:49-55 and 62-68: the items handed to collect_results
field_items(data) ==
    [i \in 1..Len(data.fields) |->
        [ident |-> IF data.kind = "Named" THEN data.fields[i].ident
                   ELSE to_string(i - 1),
         result |-> get_fieldtype_from_attrs(data.fields[i].attrs, "field_type")]]

\* fn collect_results, lib.rs:335-351
RECURSIVE collect_results_fold(_, _, _)
collect_results_fold(items, default, acc) ==
    IF Len(items) = 0 THEN acc
    ELSE LET i == Head(items)
             step ==
                CASE acc.tag = "Ok" /\ i.result.tag = "Ok" ->
                        [tag |-> "Ok",
                         v |-> Append(acc.v,
                                  [ident |-> i.ident,
                                   field_ty |-> unwrap_or(i.result.field_type, default),
                                   field_leader |-> i.result.leader])]
                  [] acc.tag = "Ok" /\ i.result.tag # "Ok" ->
                        [tag |-> "Err", v |-> <<i.ident>>]
                  [] acc.tag = "Err" /\ i.result.tag # "Ok" ->
                        [tag |-> "Err", v |-> Append(acc.v, i.ident)]
                  [] OTHER -> acc
         IN collect_results_fold(Tail(items), default, step)

\* collect_results that resolves a field without an override to Scalar
collect_results_scalar(items, default) ==
    collect_results_fold(items, "Scalar", [tag |-> "Ok", v |-> <<>>])

collect_results(items, default) ==
    collect_results_fold(items, default, [tag |-> "Ok", v |-> <<>>])

\* proc_macro2::TokenStream::from_str, lib.rs:94 and 173: the text lexes iff
\* its delimiters balance
RECURSIVE balanced(_, _)
balanced(text, open) ==
    IF Len(text) = 0 THEN Len(open) = 0
    ELSE LET c == Head(text)
         IN CASE c \in {"(", "["} -> balanced(Tail(text), <<c>> \o open)
              [] c = ")" -> Len(open) > 0 /\ Head(open) = "("
                            /\ balanced(Tail(text), Tail(open))
              [] c = "]" -> Len(open) > 0 /\ Head(open) = "["
                            /\ balanced(Tail(text), Tail(open))
              [] OTHER -> balanced(Tail(text), open)
from_str_is_ok(text) == balanced(text, <<>>)

\* lib.rs:174-178, 212-216, 276-280
field_ident(named, ident) ==
    IF named THEN <<ident>> ELSE <<"field_", ident>>

\* the outcome of mapping a per-field emitter over the fields: the first
\* field that panics ends it
RECURSIVE emit_fields(_, _, _)
emit_fields(emitted, k, acc) ==
    IF k > Len(emitted) THEN [tag |-> "Ok", v |-> acc, why |-> ""]
    ELSE IF emitted[k].tag # "Ok"
         THEN [tag |-> "Panic", v |-> <<>>, why |-> emitted[k].tag]
         ELSE emit_fields(emitted, k + 1, acc \o emitted[k].v)

\* delta_field that gives an Ordered field the shape of a Scalar one
delta_field_ordered_as_scalar(named, f) ==
    IF ~from_str_is_ok(f.field_leader)
    THEN [tag |-> "unwrap", v |-> <<>>]
    ELSE LET ident == field_ident(named, f.ident)
         IN CASE f.field_ty = "Unordered" ->
                    [tag |-> "Ok",
                     v |-> << [name |-> ident \o <<"_add">>, type |-> "Vec"],
                              [name |-> ident \o <<"_remove">>, type |-> "Vec"] >>]
              [] f.field_ty \in {"Scalar", "Ordered"} ->
                    [tag |-> "Ok", v |-> << [name |-> ident, type |-> "Option"] >>]
              [] f.field_ty = "Delta" ->
                    [tag |-> "Ok", v |-> << [name |-> ident, type |-> "OptionOutput"] >>]

\* lib.rs:172-203: the fields of the Delta struct for one field
delta_field(named, f) ==
    IF ~from_str_is_ok(f.field_leader)
    THEN [tag |-> "unwrap", v |-> <<>>]
    ELSE LET ident == field_ident(named, f.ident)
         IN CASE f.field_ty = "Ordered" -> [tag |-> "unimplemented", v |-> <<>>]
              [] f.field_ty = "Unordered" ->
                    [tag |-> "Ok",
                     v |-> << [name |-> ident \o <<"_add">>, type |-> "Vec"],
                              [name |-> ident \o <<"_remove">>, type |-> "Vec"] >>]
              [] f.field_ty = "Scalar" ->
                    [tag |-> "Ok", v |-> << [name |-> ident, type |-> "Option"] >>]
              [] f.field_ty = "Delta" ->
                    [tag |-> "Ok", v |-> << [name |-> ident, type |-> "OptionOutput"] >>]

\* fn delta_fields, lib.rs:168-205
delta_fields(named, fs) ==
    emit_fields([k \in 1..Len(fs) |-> delta_field(named, fs[k])], 1, <<>>)

\* lib.rs:211-266: the let and the struct-literal entry for one field
delta_compute_field(named, f) ==
    IF f.field_ty = "Ordered" THEN [tag |-> "unimplemented", v |-> <<>>]
    ELSE [tag |-> "Ok",
          v |-> << [name |-> field_ident(named, f.ident), strategy |-> f.field_ty] >>]

\* fn delta_compute_fields, lib.rs:207-269
delta_compute_fields(named, fs) ==
    emit_fields([k \in 1..Len(fs) |-> delta_compute_field(named, fs[k])], 1, <<>>)

\* lib.rs:275-331: the binding and the action for one field
delta_apply_field(named, f) ==
    IF f.field_ty = "Ordered" THEN [tag |-> "unimplemented", v |-> <<>>]
    ELSE [tag |-> "Ok",
          v |-> << [name |-> field_ident(named, f.ident), strategy |-> f.field_ty] >>]

\* fn delta_apply_fields, lib.rs:271-333
delta_apply_fields(named, fs) ==
    emit_fields([k \in 1..Len(fs) |-> delta_apply_field(named, fs[k])], 1, <<>>)

----------------------------------------------------------------------------
(* Derive time: the declarations under study *)

\* most fields a declared struct has
MaxFields == 2

\* the attribute lists a field is declared with
FieldAttrChoices ==
    { <<>>,
      <<delta_struct(<<NameValue("field_type", <<"ordered">>)>>)>>,
      <<delta_struct(<<NameValue("field_type", <<"unordered">>)>>)>>,
      <<delta_struct(<<NameValue("field_type", <<"scalar">>)>>)>>,
      <<delta_struct(<<NameValue("field_type", <<"delta">>)>>)>>,
      <<delta_struct(<<NameValue("field_type", <<"foo">>)>>)>>,
      <<delta_struct(<<Junk>>)>>,
      <<delta_struct(<<NameValue("delta_leader", GoodLeader),
                       NameValue("field_type", <<"unordered">>)>>)>>,
      <<delta_struct(<<NameValue("delta_leader", BadLeader)>>)>>,
      <<delta_struct(<<NameValue("typo", <<"scalar">>)>>)>>,
      <<OtherAttr, delta_struct(<<NameValue("field_type", <<"delta">>)>>)>>,
      <<delta_struct(<<NameValue("field_type", <<"scalar">>)>>),
        delta_struct(<<NameValue("field_type", <<"ordered">>)>>)>>,
      <<delta_struct(<<NameValue("field_type", <<"unordered">>),
                       NameValue("field_type", <<"bar">>)>>)>> }

\* the attribute lists the struct itself is declared with
StructAttrChoices ==
    { <<>>,
      <<delta_struct(<<NameValue("default", <<"ordered">>)>>)>>,
      <<delta_struct(<<NameValue("default", <<"unordered">>)>>)>>,
      <<delta_struct(<<NameValue("default", <<"scalar">>)>>)>>,
      <<delta_struct(<<NameValue("default", <<"delta">>)>>)>>,
      <<delta_struct(<<NameValue("default", <<"foo">>)>>)>>,
      <<delta_struct(<<Junk>>)>>,
      <<delta_struct(<<NameValue("delta_leader", BadLeader),
                       NameValue("default", <<"ordered">>)>>)>>,
      <<OtherAttr, delta_struct(<<NameValue("delta_leader", GoodLeader),
                                  NameValue("default", <<"unordered">>)>>)>>,
      <<delta_struct(<<NameValue("field_type", <<"scalar">>)>>)>> }

\* the identifiers of the fields of a struct with named fields, by position
FieldIdents == <<"a", "b", "c", "d">>

FieldDecls(kind, n) ==
    { [i \in 1..n |-> [ident |-> IF kind = "Named" THEN FieldIdents[i] ELSE "",
                       attrs |-> as[i]]] : as \in [1..n -> FieldAttrChoices] }

\* syn::Data: a struct with named fields, a tuple struct, a unit struct, or
\* an enum or union
DataChoices ==
    UNION { { [kind |-> kind, fields |-> fs] : fs \in FieldDecls(kind, n) }
            : kind \in {"Named", "Unnamed"}, n \in 0..MaxFields }
    \cup { [kind |-> "Unit", fields |-> <<>>], [kind |-> "Enum", fields |-> <<>>] }

DeriveInputs == { [attrs |-> a, data |-> d] : a \in StructAttrChoices, d \in DataChoices }

----------------------------------------------------------------------------
(* Derive time: fn derive_delta, lib.rs:25-166, statement by statement *)

NoOutput ==
    [abort |-> "", at |-> "", bad_fields |-> <<>>,
     delta_struct |-> None, compute |-> None, apply |-> None, emitted |-> FALSE]

\* `fields` before lib.rs:44 has run
NoFields == [named |-> FALSE, tag |-> "Unset", v |-> <<>>]

InitDerive ==
    /\ pc = "derive"
    /\ input \in DeriveInputs
    /\ default_field_type = Idle /\ delta_leader = Idle
    /\ fields = NoFields
    /\ output = NoOutput
    /\ ty = Idle /\ old = Idle /\ new = Idle /\ delta = Idle /\ self = Idle

\* abort_call_site!, unwrap() on an Err and unimplemented!() all end the
\* expansion with nothing emitted
Abort(at, why, bad) ==
    /\ pc' = "aborted"
    /\ output' = [output EXCEPT !.abort = why, !.at = at, !.bad_fields = bad]

\* lib.rs:33-42
ParseDefault ==
    /\ pc = "derive"
    /\ LET r == get_fieldtype_from_attrs(input.attrs, "default")
       IN CASE r.tag = "Ok" ->
                  /\ default_field_type' = unwrap_or(r.field_type, "Scalar")
                  /\ delta_leader' = r.leader
                  /\ pc' = "default_parsed"
                  /\ UNCHANGED output
            [] r.tag = "Err" ->
                  /\ Abort("default", "default is not an accepted value", <<>>)
                  /\ UNCHANGED <<default_field_type, delta_leader>>
            [] r.tag = "Abort" ->
                  /\ Abort("default", "Unrecognized value", <<>>)
                  /\ UNCHANGED <<default_field_type, delta_leader>>
    /\ UNCHANGED <<input, fields>>
    /\ UNCHANGED run_vars

\* lib.rs:44-81
Classify ==
    /\ pc = "default_parsed"
    /\ LET data == input.data
           items == field_items(data)
       IN CASE data.kind \in {"Named", "Unnamed"}
                 /\ \E k \in 1..Len(items) : items[k].result.tag = "Abort" ->
                  /\ Abort("fields", "Unrecognized value", <<>>)
                  /\ UNCHANGED fields
            [] data.kind \in {"Named", "Unnamed"}
                 /\ \A k \in 1..Len(items) : items[k].result.tag # "Abort" ->
                  /\ fields' = [named |-> data.kind = "Named"]
                                  @@ collect_results(items, default_field_type)
                  /\ pc' = "classified"
                  /\ UNCHANGED output
            [] data.kind = "Unit" ->
                  /\ fields' = [named |-> FALSE, tag |-> "Ok", v |-> <<>>]
                  /\ pc' = "classified"
                  /\ UNCHANGED output
            [] OTHER ->
                  /\ Abort("data", "may only be derived for struct types", <<>>)
                  /\ UNCHANGED fields
    /\ UNCHANGED <<input, default_field_type, delta_leader>>
    /\ UNCHANGED run_vars

\* lib.rs:82-93
CheckFields ==
    /\ pc = "classified"
    /\ IF fields.tag = "Ok"
       THEN pc' = "fields_ok" /\ UNCHANGED output
       ELSE Abort("fields", "are not valid values", fields.v)
    /\ UNCHANGED <<input, default_field_type, delta_leader, fields>>
    /\ UNCHANGED run_vars

\* lib.rs:94
ParseLeader ==
    /\ pc = "fields_ok"
    /\ IF from_str_is_ok(delta_leader)
       THEN pc' = "leader_ok" /\ UNCHANGED output
       ELSE Abort("delta_leader", "unwrap", <<>>)
    /\ UNCHANGED <<input, default_field_type, delta_leader, fields>>
    /\ UNCHANGED run_vars

\* lib.rs:95-102
BuildDeltaStruct ==
    /\ pc = "leader_ok"
    /\ LET r == delta_fields(fields.named, fields.v)
       IN IF r.tag = "Ok"
          THEN /\ output' = [output EXCEPT !.delta_struct = Some(r.v)]
               /\ pc' = "shape_built"
          ELSE Abort("delta_fields", r.why, <<>>)
    /\ UNCHANGED <<input, default_field_type, delta_leader, fields>>
    /\ UNCHANGED run_vars

\* lib.rs:103-104
BuildCompute ==
    /\ pc = "shape_built"
    /\ LET r == delta_compute_fields(fields.named, fields.v)
       IN IF r.tag = "Ok"
          THEN /\ output' = [output EXCEPT !.compute = Some(r.v)]
               /\ pc' = "compute_built"
          ELSE Abort("delta_compute_fields", r.why, <<>>)
    /\ UNCHANGED <<input, default_field_type, delta_leader, fields>>
    /\ UNCHANGED run_vars

\* lib.rs:105
BuildApply ==
    /\ pc = "compute_built"
    /\ LET r == delta_apply_fields(fields.named, fields.v)
       IN IF r.tag = "Ok"
          THEN /\ output' = [output EXCEPT !.apply = Some(r.v)]
               /\ pc' = "apply_built"
          ELSE Abort("delta_apply_fields", r.why, <<>>)
    /\ UNCHANGED <<input, default_field_type, delta_leader, fields>>
    /\ UNCHANGED run_vars

\* lib.rs:106-165
Emit ==
    /\ pc = "apply_built"
    /\ output' = [output EXCEPT !.emitted = TRUE]
    /\ pc' = "emitted"
    /\ UNCHANGED <<input, default_field_type, delta_leader, fields>>
    /\ UNCHANGED run_vars

NextDerive ==
    \/ ParseDefault \/ Classify \/ CheckFields \/ ParseLeader
    \/ BuildDeltaStruct \/ BuildCompute \/ BuildApply \/ Emit

SpecDerive == InitDerive /\ [][NextDerive]_vars

----------------------------------------------------------------------------
(* Notions the properties are stated in *)

\* occurrences of v in s
Count(s, v) == Cardinality({i \in 1..Len(s) : s[i] = v})
Elems(s) == {s[i] : i \in 1..Len(s)}
Max(a, b) == IF a >= b THEN a ELSE b

\* equal as multisets
BagEq(a, b) == \A v \in Elems(a) \cup Elems(b) : Count(a, v) = Count(b, v)

\* a and b of type t agree field by field: Scalar fields are equal, Unordered
\* fields are equal as multisets, Delta fields agree in the same way
RECURSIVE Agree(_, _, _)
FieldAgrees(f, a, b) ==
    CASE f.ft = "Scalar" -> a = b
      [] f.ft = "Unordered" -> BagEq(a, b)
      [] f.ft = "Delta" -> Agree(f.inner, a, b)
Agree(t, a, b) == \A i \in 1..Len(t) : FieldAgrees(t[i], a[i], b[i])

\* the type has an Unordered field, at any depth
RECURSIVE HasUnordered(_)
HasUnordered(t) ==
    \E i \in 1..Len(t) :
        \/ t[i].ft = "Unordered"
        \/ t[i].ft = "Delta" /\ HasUnordered(t[i].inner)

\* the sub-value a field has in a Delta when the field did not change
UnchangedRep(f, d) ==
    CASE f.ft = "Scalar" -> d = None
      [] f.ft = "Unordered" -> Len(d.add) = 0 /\ Len(d.remove) = 0
      [] f.ft = "Delta" -> d = None

\* s without its elements at the indices not in keep
RECURSIVE SelectIndices(_, _, _)
SelectIndices(s, keep, k) ==
    IF k > Len(s) THEN <<>>
    ELSE (IF k \in keep THEN <<s[k]>> ELSE <<>>) \o SelectIndices(s, keep, k + 1)

\* T without, for each value v, its first min(count_T(v), count_rem(v))
\* occurrences of v
Cancelled(T, rem) ==
    SelectIndices(T,
        {k \in 1..Len(T) :
            Cardinality({j \in 1..(k - 1) : T[j] = T[k]}) >= Count(rem, T[k])},
        1)

----------------------------------------------------------------------------
(* C1: round trip *)

\* C1 as stated: applying compute(old, new) to a copy of old gives a
\* record equal to new in every Scalar and every Delta field, and
\* multiset-equal to new in every Unordered field.
C1_RoundTripAsStated ==
    pc = "applied" =>
        \A i \in 1..Len(ty) :
            /\ ty[i].ft \in {"Scalar", "Delta"} => self[i] = new[i]
            /\ ty[i].ft = "Unordered" => BagEq(self[i], new[i])

\* C1 (amended): applying compute(old, new) to a copy of old gives a record
\* that equals new in every Scalar field, is multiset-equal to new in every
\* Unordered field, and in every Delta field agrees with new's nested record
\* under the same rule, recursively; a Delta field whose nested type has no
\* Unordered field at any depth is equal to new's.  Every pair (old, new) is
\* an initial state, so the swapped pair is covered.
C1_RoundTrip ==
    pc = "applied" =>
        /\ Agree(ty, self, new)
        /\ \A i \in 1..Len(ty) :
              /\ ty[i].ft = "Scalar" => self[i] = new[i]
              /\ ty[i].ft = "Unordered" => BagEq(self[i], new[i])
              /\ (ty[i].ft = "Delta" /\ ~HasUnordered(ty[i].inner))
                    => self[i] = new[i]

\* a delta was applied to a record with a Scalar field and a Delta field whose
\* nested record has an Unordered field, and the nested record changed
C1_Witness ==
    /\ pc = "applied"
    /\ \E i, j \in 1..Len(ty) :
          /\ ty[i].ft = "Scalar" /\ self[i] # old[i]
          /\ ty[j].ft = "Delta" /\ HasUnordered(ty[j].inner)
          /\ self[j] # old[j]

----------------------------------------------------------------------------
(* C2: no-op law *)

\* C2: compute(r, r) is None for every record r.
C2_NoOp == (pc = "computed" /\ old = new) => delta = None

\* compute(r, r) ran on a record with a Delta field and an Unordered field
\* holding a duplicate
C2_Witness ==
    /\ pc = "computed" /\ old = new /\ delta = None
    /\ \E i, j \in 1..Len(ty) :
          /\ ty[i].ft = "Unordered"
          /\ \E v \in Vals : Count(old[i], v) >= 2
          /\ ty[j].ft = "Delta"

----------------------------------------------------------------------------
(* C3: change flag *)

\* C3: compute(old, new) is None iff every field is unchanged under its own
\* strategy (Scalar: equal; Unordered: equal as multisets; Delta: the nested
\* record unchanged in the same sense), and a Delta that is returned has a
\* field that is not at its unchanged representation.
C3_ChangeFlag ==
    pc = "computed" =>
        /\ (delta = None) <=> Agree(ty, old, new)
        /\ is_some(delta) =>
              \E i \in 1..Len(ty) : ~UnchangedRep(ty[i], delta[1][i])

\* compute returned None for two records that differ (a pure reordering)
C3_Witness == pc = "computed" /\ delta = None /\ old # new

----------------------------------------------------------------------------
(* C4: the Unordered diff is the multiset difference *)

RECURSIVE IsBagDifference(_, _, _, _)
FieldIsBagDifference(f, o, n, d) ==
    CASE f.ft = "Scalar" -> TRUE
      [] f.ft = "Unordered" ->
            /\ \A v \in Vals :
                  /\ Count(d.remove, v) = Max(0, Count(o, v) - Count(n, v))
                  /\ Count(d.add, v) = Max(0, Count(n, v) - Count(o, v))
            /\ Elems(d.add) \cap Elems(d.remove) = {}
      [] f.ft = "Delta" -> is_some(d) => IsBagDifference(f.inner, o, n, d[1])
IsBagDifference(t, o, n, d) ==
    \A i \in 1..Len(t) : FieldIsBagDifference(t[i], o[i], n[i], d[i])

\* C4: in every Delta compute returns, each Unordered field's removed list
\* holds max(0, count_old(v) - count_new(v)) and its added list
\* max(0, count_new(v) - count_old(v)) occurrences of every value v, no value
\* is in both, and [a,b,b] -> [b,c] gives removed = [a,b], added = [c].
C4_BagDifference ==
    pc = "computed" =>
        /\ is_some(delta) => IsBagDifference(ty, old, new, delta[1])
        /\ (ty = <<Unordered>> /\ old = <<(<<1, 2, 2>>)>> /\ new = <<(<<2, 3>>)>>)
              => delta = Some(<<[add |-> <<3>>, remove |-> <<1, 2>>]>>)

\* the scenario [a,b,b] -> [b,c] was computed
C4_Witness ==
    /\ pc = "computed" /\ ty = <<Unordered>>
    /\ old = <<(<<1, 2, 2>>)>> /\ new = <<(<<2, 3>>)>>
    /\ is_some(delta)

----------------------------------------------------------------------------
(* C6: per-field representation *)

\* C6: in a returned Delta a Scalar field is Some(new.field) iff
\* old.field # new.field and None otherwise, an Unordered field has both
\* lists empty iff the field is unchanged, a Delta field is present iff the
\* nested record changed, and each sub-value is the one the field alone
\* would get.
C6_PerField ==
    (pc = "computed" /\ is_some(delta)) =>
        \A i \in 1..Len(ty) :
            LET f == ty[i]
                d == delta[1][i]
                alone == delta_fn(<<f>>, <<old[i]>>, <<new[i]>>)
            IN /\ f.ft = "Scalar" =>
                     d = (IF old[i] # new[i] THEN Some(new[i]) ELSE None)
               /\ f.ft = "Unordered" =>
                     (Len(d.add) = 0 /\ Len(d.remove) = 0) <=> BagEq(old[i], new[i])
               /\ f.ft = "Delta" =>
                     /\ is_some(d) <=> ~Agree(f.inner, old[i], new[i])
                     /\ d = delta_fn(f.inner, old[i], new[i])
               /\ IF is_some(alone) THEN alone[1][1] = d ELSE UnchangedRep(f, d)

\* the outer Delta exists because a Scalar field changed while the nested
\* record is unchanged and absent
C6_Witness ==
    /\ pc = "computed" /\ is_some(delta)
    /\ \E i, j \in 1..Len(ty) :
          /\ ty[i].ft = "Scalar" /\ delta[1][i] = Some(new[i])
          /\ ty[j].ft = "Delta" /\ delta[1][j] = None /\ old[j] = new[j]

----------------------------------------------------------------------------
(* C7: patch frame *)

\* C7: apply leaves a Scalar or Delta field whose sub-value is None as it
\* was, leaves an Unordered field with both lists empty with the same
\* elements in the same order, leaves the whole record as it was when every
\* sub-value is at its unchanged representation, and gives each field the
\* value its own sub-value alone determines.
C7_PatchFrame ==
    pc = "applied" =>
        LET d == delta[1]
        IN /\ \A i \in 1..Len(ty) :
                 /\ UnchangedRep(ty[i], d[i]) => self[i] = old[i]
                 /\ <<self[i]>> = apply_delta(<<ty[i]>>, <<old[i]>>, <<d[i]>>)
           /\ (\A i \in 1..Len(ty) : UnchangedRep(ty[i], d[i])) => self = old

\* a Delta with one field changed and the Scalar and Unordered fields at
\* their unchanged representation was applied
C7_Witness ==
    /\ pc = "applied"
    /\ \E i, j, k \in 1..Len(ty) :
          /\ ty[i].ft = "Scalar" /\ delta[1][i] = None
          /\ ty[j].ft = "Unordered" /\ UnchangedRep(ty[j], delta[1][j])
          /\ Len(old[j]) > 0
          /\ ty[k].ft = "Delta" /\ self[k] # old[k]

----------------------------------------------------------------------------
(* C9: the Unordered patch on any target *)

\* C9: for any target T and any (added, removed), the field afterwards is T
\* without the elements cancelled one for one by removed, in T's order,
\* followed by added; every value v occurs
\* max(0, count_T(v) - count_removed(v)) + count_added(v) times.
C9_UnorderedPatch ==
    pc = "applied" =>
        \A i \in 1..Len(ty) :
            ty[i].ft = "Unordered" =>
                LET T == old[i]
                    d == delta[1][i]
                IN /\ self[i] = Cancelled(T, d.remove) \o d.add
                   /\ \A v \in Vals :
                         Count(self[i], v) =
                            Max(0, Count(T, v) - Count(d.remove, v)) + Count(d.add, v)

\* removed held one entry for a value the target held twice and an entry
\* for a value the target did not hold
C9_Witness ==
    /\ pc = "applied"
    /\ \E i \in 1..Len(ty) :
          /\ ty[i].ft = "Unordered"
          /\ \E v, w \in Vals :
                /\ Count(old[i], v) = 2 /\ Count(delta[1][i].remove, v) = 1
                /\ Count(old[i], w) = 0 /\ Count(delta[1][i].remove, w) = 1
                /\ Count(self[i], v) = 1

----------------------------------------------------------------------------
(* What a declaration declares, read off the attribute lists *)

\* the token each strategy is written as
TokenOf == [Ordered |-> <<"ordered">>, Unordered |-> <<"unordered">>,
            Scalar |-> <<"scalar">>, Delta |-> <<"delta">>]
Recognized(tok) == \E S \in FieldType : TokenOf[S] = tok

\* Some(the literal of the last `key = ".."` entry of the first
\* delta_struct(..) attribute), None when there is no such entry
DeclaredToken(attrs, key) ==
    LET at == {k \in 1..Len(attrs) : attrs[k].path = "delta_struct"}
    IN IF at = {} THEN None
       ELSE LET first == CHOOSE k \in at : \A j \in at : k <= j
                entries == SelectSeq(attrs[first].nested,
                              LAMBDA m : m.kind = "NameValue" /\ m.name = key)
            IN IF Len(entries) = 0 THEN None
               ELSE Some(entries[Len(entries)].value)

\* the name derive_delta knows field i by
DeclaredName(i) ==
    IF input.data.kind = "Named" THEN input.data.fields[i].ident
    ELSE to_string(i - 1)

\* the fields that declare a strategy token that names no strategy
Offending ==
    {i \in 1..Len(input.data.fields) :
        LET tok == DeclaredToken(input.data.fields[i].attrs, "field_type")
        IN is_some(tok) /\ ~Recognized(tok[1])}

\* the expansion got as far as classifying the fields, and they classified
FieldsOk == fields.tag = "Ok"

HasOrdered == \E k \in 1..Len(fields.v) : fields.v[k].field_ty = "Ordered"

Ended == pc \in {"aborted", "emitted"}

----------------------------------------------------------------------------
(* C5: aggregated error for unrecognized strategy tokens *)

\* C5: when one or more fields declare a strategy token that names no
\* strategy, classification ends in one error that names every such field,
\* and nothing is emitted.
C5_AggregatedError ==
    /\ (pc = "classified" /\ Offending # {}) =>
          /\ fields.tag = "Err"
          /\ \A i \in Offending :
                \E k \in 1..Len(fields.v) : fields.v[k] = DeclaredName(i)
    /\ pc = "emitted" => Offending = {}

----------------------------------------------------------------------------
(* C8: strategy resolution *)

\* C8: every classified field has the strategy its own field_type token
\* names when it declares one, and the record-level default when it declares
\* none; the default is the strategy the default token names when one is
\* declared and Scalar when none is; the fields come in declaration order.
C8_Resolution ==
    /\ default_field_type # Idle =>
          LET tok == DeclaredToken(input.attrs, "default")
          IN /\ tok = None => default_field_type = "Scalar"
             /\ \A S \in FieldType :
                   tok = Some(TokenOf[S]) => default_field_type = S
    /\ (FieldsOk /\ input.data.kind \in {"Named", "Unnamed"}) =>
          /\ Len(fields.v) = Len(input.data.fields)
          /\ \A i \in 1..Len(fields.v) :
                LET tok == DeclaredToken(input.data.fields[i].attrs, "field_type")
                IN /\ fields.v[i].ident = DeclaredName(i)
                   /\ tok = None => fields.v[i].field_ty = default_field_type
                   /\ \A S \in FieldType :
                         tok = Some(TokenOf[S]) => fields.v[i].field_ty = S

\* a record with a declared default other than Scalar, one field with an
\* override and one without
C8_Witness ==
    /\ pc = "classified" /\ FieldsOk
    /\ default_field_type = "Unordered"
    /\ Len(fields.v) = 2
    /\ DeclaredToken(input.data.fields[1].attrs, "field_type") = Some(<<"delta">>)
    /\ fields.v[1].field_ty = "Delta"
    /\ DeclaredToken(input.data.fields[2].attrs, "field_type") = None
    /\ fields.v[2].field_ty = "Unordered"

----------------------------------------------------------------------------
(* C10: Ordered has no run-time path *)

LeadersOk ==
    /\ from_str_is_ok(delta_leader)
    /\ \A k \in 1..Len(fields.v) : from_str_is_ok(fields.v[k].field_leader)

====
